---- MODULE Spec2Model ----
(***************************************************************************)
(* QLORAX API process (app/api.py): the training-status record with its    *)
(* background training tasks, and the lazily created ModelManager with     *)
(* its load operation.                                                     *)
(*                                                                         *)
(* Scheduling, as FastAPI/Starlette run this code:                         *)
(*  - every endpoint is `async def` with no await in its body, so a        *)
(*    handler runs on the event loop from start to end without another     *)
(*    handler in between;                                                  *)
(*  - get_model_manager is a plain `def` dependency and run_training a     *)
(*    plain `def` background task: both run in worker threads, one per     *)
(*    request, interleaved with the event loop and with each other at      *)
(*    every read or write of shared state;                                 *)
(*  - a background task starts after its request's response is sent.       *)
(***************************************************************************)
EXTENDS Integers, Sequences, FiniteSets, TLC

\* ------------------------------------------------------------------ bounds
\* number of POST /train requests the environment issues
MaxTrain == 3

\* number of requests to /chat, /load_model and /model_status the environment
\* issues
MaxRequests == 3

\* the requests in flight: two at a time, each with its worker thread for
\* get_model_manager; a slot is free again once its request is answered
Slots == {1, 2}

Tasks == 1..MaxTrain

\* ------------------------------------------------- training-status record
\* messages `str(e)` of the exceptions the import of scripts.train_production
\* or train_main(config_path) may raise
ImportErrorMessage == "No module named scripts"

ExcMessages == {ImportErrorMessage, "CUDA out of memory"}

\* TrainingRequest.config_path: an Optional[str]; "" stands for an empty string
ConfigPaths == {"None", "", "configs/test-config.yaml"}

DefaultConfig == "configs/production-config.yaml"

StatusIdle == [status |-> "idle", message |-> <<"No training in progress">>]

StatusStarting == [status |-> "starting", message |-> <<"Training task queued">>]

StatusTraining == [status |-> "training", message |-> <<"Training started">>]

StatusCompleted == [status |-> "completed", message |-> <<"Training completed successfully">>]

\* f"Training failed: {str(e)}"; a message is the tuple of its pieces
TrainingFailedMessage(e) == <<"Training failed: ", e>>

\* fault variant: the except clause of run_training leaves the record as it is
StatusErrorKeepTraining(e) == StatusTraining

StatusError(e) == [status |-> "error", message |-> TrainingFailedMessage(e)]

\* request.config_path or "configs/production-config.yaml"
EffectiveConfig(c) == IF c \in {"None", ""} THEN DefaultConfig ELSE c

\* fault variant: start_training without its guard
NoGuard(st) == FALSE

\* fault variant: start_training also refuses to start over after a failure
GuardRejectsError(st) == st.status \in {"training", "error"}

\* the guard of start_training: `if training_status["status"] == "training"`
AlreadyTraining(st) == st.status = "training"

NoTask == [pc |-> "none", config |-> "None", arg |-> "None", exc |-> "none"]

\* ------------------------------------------------------------ ModelManager
BaseModel == "microsoft/DialoGPT-medium"

possible_paths ==
    <<"outputs/production_training/final_model", "models/fine_tuned_model", BaseModel>>

\* the directories list_models looks into, and the names it appends after them
model_dirs == <<"outputs/production_training", "models", "checkpoints">>

base_models ==
    <<"microsoft/DialoGPT-medium", "microsoft/DialoGPT-small", "microsoft/DialoGPT-large">>

ModelDirs == {model_dirs[i] : i \in DOMAIN model_dirs}

\* what a directory may hold: sub-directories and plain files
FinalModelItem == [name |-> "final_model", isdir |-> TRUE]

FineTunedItem == [name |-> "fine_tuned_model", isdir |-> TRUE]

DirItems(d) ==
    IF d = "outputs/production_training"
    THEN {FinalModelItem, [name |-> "training.log", isdir |-> FALSE]}
    ELSE IF d = "models"
    THEN {FineTunedItem, [name |-> "production-model", isdir |-> TRUE],
          [name |-> "README.md", isdir |-> FALSE]}
    ELSE {[name |-> "checkpoint-100", isdir |-> TRUE]}

\* os.path.join(model_dir, item), on the names above
PathJoin(d, n) ==
    IF d = "outputs/production_training" /\ n = "final_model"
    THEN "outputs/production_training/final_model"
    ELSE IF d = "outputs/production_training" /\ n = "training.log"
    THEN "outputs/production_training/training.log"
    ELSE IF d = "models" /\ n = "fine_tuned_model" THEN "models/fine_tuned_model"
    ELSE IF d = "models" /\ n = "production-model" THEN "models/production-model"
    ELSE IF d = "models" /\ n = "README.md" THEN "models/README.md"
    ELSE IF d = "checkpoints" /\ n = "checkpoint-100" THEN "checkpoints/checkpoint-100"
    ELSE "other"

\* a directory that does not exist, and one that exists with these entries
NoDir == [exists |-> FALSE, items |-> {}]

Dir(items) == [exists |-> TRUE, items |-> items]

EmptyDirs == [d \in ModelDirs |-> NoDir]

\* the local filesystem: what each of the model directories holds, the paths
\* that exist by it, and the directories that hold an adapter_config.json
ExistingPaths(dirs) ==
    UNION {{PathJoin(d, i.name) : i \in dirs[d].items} : d \in ModelDirs}

FsOf(dirs, adapter) == [exists |-> ExistingPaths(dirs), adapter |-> adapter, dirs |-> dirs]

\* Three filesystems, one for each way a load can go: nothing trained yet (the
\* fallback base model is chosen), a trained adapter directory, a trained
\* standalone model directory
FileSystems ==
    {FsOf(EmptyDirs, {}),
     FsOf([EmptyDirs EXCEPT !["outputs/production_training"] = Dir({FinalModelItem})],
          {"outputs/production_training/final_model"}),
     FsOf([EmptyDirs EXCEPT !["models"] = Dir({FineTunedItem})], {})}

\* the two local paths load_model probes, each existing or not, each with or
\* without an adapter_config.json
LocalPaths == {"outputs/production_training/final_model", "models/fine_tuned_model"}

DirsWith(paths) ==
    [d \in ModelDirs |->
        IF d = "outputs/production_training" /\ "outputs/production_training/final_model" \in paths
        THEN Dir({FinalModelItem})
        ELSE IF d = "models" /\ "models/fine_tuned_model" \in paths
        THEN Dir({FineTunedItem})
        ELSE NoDir]

LoadFileSystems ==
    UNION {{FsOf(DirsWith(e), a) : a \in SUBSET e} : e \in SUBSET LocalPaths}

\* every state of the model directories: each absent, or present with any of
\* its entries
DirStates == {NoDir} \cup UNION {{Dir(S) : S \in SUBSET DirItems(d)} : d \in ModelDirs}

ListFileSystems ==
    {FsOf(dirs, {}) : dirs \in {f \in [ModelDirs -> DirStates] :
                                    \A d \in ModelDirs : f[d].items \subseteq DirItems(d)}}

\* os.path.exists(path)
PathExists(f, p) == p \in f.exists

\* fault variant: every candidate is taken for a remote name
EveryPathRemote(p) == TRUE

\* path.startswith("microsoft/")
StartsWithMicrosoft(p) == p \in {BaseModel}

\* the loop `for path in possible_paths: if ...: model_path = path; break`
RECURSIVE FirstPath(_, _)
FirstPath(f, i) ==
    IF i > Len(possible_paths) THEN "None"
    ELSE IF PathExists(f, possible_paths[i]) \/ StartsWithMicrosoft(possible_paths[i])
         THEN possible_paths[i]
         ELSE FirstPath(f, i + 1)

\* `if model_path is None: ...`
ResolvePath(f, model_path) == IF model_path = "None" THEN FirstPath(f, 1) ELSE model_path

\* os.path.exists(model_path) and "adapter_config.json" in os.listdir(model_path)
IsAdapterDir(f, p) == PathExists(f, p) /\ p \in f.adapter

\* type(manager.model).__name__ of what the load assigns to self.model
ModelType(f, p) == IF IsAdapterDir(f, p) THEN "PeftModel" ELSE "CausalLM"

\* what the weights are read from: AutoModelForCausalLM.from_pretrained of the
\* fixed base model or of model_path itself
ModelBase(f, p) == IF IsAdapterDir(f, p) THEN BaseModel ELSE p

\* PeftModel.from_pretrained(base_model, model_path): the adapter put on top
ModelAdapter(f, p) == IF IsAdapterDir(f, p) THEN p ELSE "None"

\* a load_model call is named by the number of the request that runs it and by
\* where it runs: "dep" for the lazy load of get_model_manager, "handler" for
\* POST /load_model; NoLoad names no call (the None of __init__)
NoLoad == <<0, "none">>

\* ModelManager.__init__
NewManager ==
    [model |-> [src |-> NoLoad, type |-> "None", base |-> "None", adapter |-> "None"],
     tokenizer |-> [src |-> NoLoad],
     model_name |-> "None",
     name_src |-> NoLoad,
     is_loaded |-> FALSE]

\* self.tokenizer = AutoTokenizer.from_pretrained(model_path)
SetTokenizer(m, l) == [m EXCEPT !.tokenizer = [src |-> l]]

\* self.model = PeftModel.from_pretrained(...) / AutoModelForCausalLM.from_pretrained(...)
SetModel(m, l, f, p) ==
    [m EXCEPT !.model = [src |-> l, type |-> ModelType(f, p),
                         base |-> ModelBase(f, p), adapter |-> ModelAdapter(f, p)]]

\* self.model_name = model_path
SetName(m, l, p) == [m EXCEPT !.model_name = p, !.name_src = l]

\* self.is_loaded = True
SetLoaded(m) == [m EXCEPT !.is_loaded = TRUE]

\* fault variant: the except clause of load_model only re-raises
LoadFailedKeepsFlag(m) == m

\* the except clause of load_model: self.is_loaded = False (and re-raise)
LoadFailed(m) == [m EXCEPT !.is_loaded = FALSE]

\* the statements of load_model that may raise, by the position of the call
FailStages(pc, f, p) ==
    IF pc = "tok" THEN {"import", "tokenizer"}
    ELSE IF IsAdapterDir(f, p) THEN {"base_model", "adapter"}
    ELSE IF PathExists(f, p) THEN {"listdir", "model"}
    ELSE {"model"}

\* generate_response: what it returns or raises
GenerateResponse(m, gen) ==
    IF ~m.is_loaded
    THEN [raised |-> 503, detail |-> <<"Model not loaded">>, text |-> <<>>]
    ELSE IF gen = "fail"
    THEN [raised |-> 500, detail |-> <<"Generation error: ", "generate failed">>, text |-> <<>>]
    ELSE [raised |-> 0, detail |-> <<>>, text |-> <<"generated", m.tokenizer.src, m.model.src>>]

\* a response: the HTTP status code and the fields of the body; with it, which
\* request it answers, what is_loaded was when generate_response read it, and
\* how the lazy load of this request's get_model_manager ended, if it ran one
NoResp ==
    [code |-> 0, detail |-> <<>>, response |-> <<>>, is_loaded |-> FALSE,
     model_name |-> "None", model_type |-> "None", saw_loaded |-> FALSE,
     req |-> 0, kind |-> "none", lazy |-> "none"]

\* chat: `except Exception as e: raise HTTPException(status_code=500, detail=str(e))`
\* around the call of generate_response
ChatResponse(m, g) ==
    IF g.raised # 0
    THEN [NoResp EXCEPT !.code = 500, !.detail = g.detail, !.saw_loaded = m.is_loaded]
    ELSE [NoResp EXCEPT !.code = 200, !.response = g.text, !.saw_loaded = m.is_loaded,
                        !.model_name = IF m.model_name # "None" THEN m.model_name
                                       ELSE "unknown"]

\* fault variant: model_status reports is_loaded: false whatever the manager holds
ModelStatusAlwaysFalse(m) ==
    [NoResp EXCEPT !.code = 200, !.is_loaded = FALSE, !.model_name = m.model_name,
                   !.model_type = m.model.type]

\* model_status
ModelStatusResponse(m) ==
    [NoResp EXCEPT !.code = 200, !.is_loaded = m.is_loaded, !.model_name = m.model_name,
                   !.model_type = m.model.type]

\* load_model (the endpoint): `except Exception as e: raise HTTPException(500, str(e))`
LoadModelFailedResponse == [NoResp EXCEPT !.code = 500, !.detail = <<"load failed">>]

\* load_model (the endpoint): the success message
LoadModelOkResponse(m) ==
    [NoResp EXCEPT !.code = 200, !.detail = <<"Model loaded from ", m.model_name>>]

\* Optional[str] model_path of POST /load_model
ModelPathArgs == {"None", "outputs/production_training/final_model"}

NoReq ==
    [id |-> 0, kind |-> "none", model_path |-> "None", pc |-> "idle", phase |-> "none",
     self |-> 0, manager |-> 0, path |-> "None", lazy |-> "none"]

LoadPcs == {"tok", "mod", "name", "flag"}

\* ------------------------------------------- the endpoints that only report
\* no GET /train/status, GET /health or GET /models answered yet
NoStatusResp ==
    [code |-> 0, status |-> "none", message |-> <<>>, progress |-> "None", logs |-> "None"]

NoHealthResp ==
    [code |-> 0, status |-> "none", timestamp |-> "none", version |-> "none",
     environment |-> "none", dependencies |-> "none"]

NoModelsResp == [code |-> 0, models |-> <<>>]

\* ------------------------------------------------------------ quick_start.py
\* the files validate_setup looks for
required_files ==
    <<"scripts/train_production.py", "scripts/benchmark.py",
      "configs/production-config.yaml", "data/training_data.jsonl", "data/test_data.jsonl">>

RequiredFiles == {required_files[i] : i \in DOMAIN required_files}

\* a run of quick_start.main in a working directory that holds these files:
\* where it is, the steps it has started, what the user typed, how each command
\* ended, whether models/production-model was there, and what main returned
\* (<<>> while it has not returned)
QuickStart(files) ==
    [pc |-> "validate", files |-> files, log |-> <<>>, response |-> "none",
     production |-> "none", fallback |-> "none", model_exists |-> FALSE,
     benchmark |-> "none", shown |-> "none", ret |-> <<>>]

\* the script is not running
QuickNotRun == [QuickStart({}) EXCEPT !.pc = "not_run"]

VARIABLES
    training_status,  \* the module-level dict training_status
    tasks,            \* run_training closures: none / queued / running / done
    trainResp,        \* the last response of POST /train, with its sequence number
    fs,               \* the local filesystem
    model_manager,    \* the module-level model_manager: 0 is None, else a manager
    constructed,      \* the ModelManager instances constructed so far
    mgr,              \* the fields of each ModelManager instance
    arrived,          \* the number of requests issued so far
    req,              \* the requests in flight that depend on get_model_manager
    succeeded,        \* the load_model calls that returned without raising
    lastResp,         \* the last response sent to one of these requests
    statusResp,       \* the last response of GET /train/status
    healthResp,       \* the last response of GET /health
    modelsResp,       \* the last response of GET /models
    quick             \* the run of quick_start.py

trainVars == <<training_status, tasks, trainResp>>

mgrVars == <<fs, model_manager, constructed, mgr, arrived, req, succeeded, lastResp>>

otherVars == <<statusResp, healthResp, modelsResp, quick>>

vars == <<training_status, tasks, trainResp, fs, model_manager, constructed, mgr,
          arrived, req, succeeded, lastResp, statusResp, healthResp, modelsResp, quick>>

TrainInit ==
    /\ training_status = StatusIdle
    /\ tasks = [t \in Tasks |-> NoTask]
    /\ trainResp = [seq |-> 0, code |-> 0, detail |-> "none"]

\* no manager yet, no request yet
MgrStart ==
    /\ model_manager = 0
    /\ constructed = {}
    /\ mgr = [i \in Slots |-> NewManager]
    /\ arrived = 0
    /\ req = [r \in Slots |-> NoReq]
    /\ succeeded = {}
    /\ lastResp = NoResp

MgrInit == fs \in FileSystems /\ MgrStart

ReportInit ==
    /\ statusResp = NoStatusResp
    /\ healthResp = NoHealthResp
    /\ modelsResp = NoModelsResp

OtherInit == ReportInit /\ quick = QuickNotRun

Init == TrainInit /\ MgrInit /\ OtherInit

\* the event loop runs one handler at a time: it is busy while POST /load_model
\* is inside manager.load_model
LoopFree == \A r \in Slots : ~(req[r].phase = "handler" /\ req[r].pc \in LoadPcs)

\* POST /train answered 409: nothing is queued, nothing is written
StartTrainingRejected ==
    /\ LoopFree
    /\ trainResp.seq < MaxTrain
    /\ AlreadyTraining(training_status)
    /\ trainResp' = [seq |-> trainResp.seq + 1, code |-> 409,
                     detail |-> "Training already in progress"]
    /\ UNCHANGED <<training_status, tasks>>
    /\ UNCHANGED <<mgrVars, otherVars>>

\* POST /train accepted: add_task(run_training), then the status write
StartTrainingAccepted(c) ==
    /\ LoopFree
    /\ trainResp.seq < MaxTrain
    /\ ~AlreadyTraining(training_status)
    /\ \E t \in Tasks :
         /\ tasks[t].pc = "none"
         /\ \A u \in Tasks : u < t => tasks[u].pc # "none"
         /\ tasks' = [tasks EXCEPT ![t] = [NoTask EXCEPT !.pc = "queued", !.config = c]]
    /\ training_status' = StatusStarting
    /\ trainResp' = [seq |-> trainResp.seq + 1, code |-> 200,
                     detail |-> "Training started in background"]
    /\ UNCHANGED <<mgrVars, otherVars>>

\* run_training, first statement
TaskBegin(t) ==
    /\ tasks[t].pc = "queued"
    /\ training_status' = StatusTraining
    /\ tasks' = [tasks EXCEPT ![t].pc = "running"]
    /\ UNCHANGED trainResp
    /\ UNCHANGED <<mgrVars, otherVars>>

\* run_training: the import and train_main(config_path) returned
TaskComplete(t) ==
    /\ tasks[t].pc = "running"
    /\ training_status' = StatusCompleted
    /\ tasks' = [tasks EXCEPT ![t].pc = "done",
                            ![t].arg = EffectiveConfig(tasks[t].config)]
    /\ UNCHANGED trainResp
    /\ UNCHANGED <<mgrVars, otherVars>>

\* run_training: the import or train_main raised an Exception with message e
TaskFail(t, e) ==
    /\ tasks[t].pc = "running"
    /\ training_status' = StatusError(e)
    /\ tasks' = [tasks EXCEPT ![t].pc = "done", ![t].exc = e,
                            ![t].arg = IF e = ImportErrorMessage THEN "None"
                                       ELSE EffectiveConfig(tasks[t].config)]
    /\ UNCHANGED trainResp
    /\ UNCHANGED <<mgrVars, otherVars>>

TrainNext ==
    \/ StartTrainingRejected
    \/ \E c \in ConfigPaths : StartTrainingAccepted(c)
    \/ \E t \in Tasks : TaskBegin(t)
    \/ \E t \in Tasks : TaskComplete(t)
    \/ \E t \in Tasks, e \in ExcMessages : TaskFail(t, e)


\* --------------------------------------------------- requests and the manager
\* the load_model call the request in slot r is in
CurLoad(r) == <<req[r].id, req[r].phase>>

\* a request to /chat, /load_model or /model_status arrives; its dependency
\* get_model_manager is handed to a worker thread. get_model_manager does not
\* read the request, so which endpoint and which body it is shows only when
\* the handler runs
Arrive(r) ==
    /\ arrived < MaxRequests
    /\ req[r].pc = "idle"
    /\ \A q \in Slots : q < r => req[q].pc # "idle"
    /\ arrived' = arrived + 1
    /\ req' = [req EXCEPT ![r] = [NoReq EXCEPT !.id = arrived + 1, !.pc = "check",
                                                !.phase = "dep"]]
    /\ UNCHANGED <<fs, model_manager, constructed, mgr, succeeded, lastResp>>
    /\ UNCHANGED <<trainVars, otherVars>>

\* get_model_manager: `if model_manager is None`
DepCheck(r) ==
    /\ req[r].pc = "check"
    /\ req' = [req EXCEPT ![r].pc = IF model_manager = 0 THEN "construct" ELSE "ret"]
    /\ UNCHANGED <<fs, model_manager, constructed, mgr, arrived, succeeded, lastResp>>
    /\ UNCHANGED <<trainVars, otherVars>>

\* get_model_manager: `model_manager = ModelManager()`
DepConstruct(r) ==
    /\ req[r].pc = "construct"
    /\ mgr' = [mgr EXCEPT ![r] = NewManager]
    /\ model_manager' = r
    /\ constructed' = constructed \cup {r}
    /\ req' = [req EXCEPT ![r].pc = "call"]
    /\ UNCHANGED <<fs, arrived, succeeded, lastResp>>
    /\ UNCHANGED <<trainVars, otherVars>>

\* get_model_manager: `model_manager.load_model()` reads the global again and
\* enters load_model on that instance, which resolves model_path (lines 110-121)
DepCall(r) ==
    /\ req[r].pc = "call"
    /\ req' = [req EXCEPT ![r].pc = "tok", ![r].self = model_manager,
                          ![r].path = ResolvePath(fs, "None")]
    /\ UNCHANGED <<fs, model_manager, constructed, mgr, arrived, succeeded, lastResp>>
    /\ UNCHANGED <<trainVars, otherVars>>

\* the slot of a request that was answered
Done == NoReq

Answer(r, kind, body) ==
    [body EXCEPT !.req = req[r].id, !.kind = kind, !.lazy = req[r].lazy]

\* load_model returns or raises: get_model_manager goes on (it swallows the
\* exception), the endpoint answers
AfterLoad(r, ok) ==
    IF req[r].phase = "dep"
    THEN /\ req' = [req EXCEPT ![r].pc = "ret", ![r].self = 0, ![r].path = "None",
                               ![r].lazy = IF ok THEN "ok" ELSE "failed"]
         /\ UNCHANGED lastResp
    ELSE /\ req' = [req EXCEPT ![r] = Done]
         /\ lastResp' = Answer(r, "load_model",
                               IF ok THEN LoadModelOkResponse(mgr'[req[r].manager])
                               ELSE LoadModelFailedResponse)

\* load_model, lines 125-128
LoadTokenizer(r) ==
    /\ req[r].pc = "tok"
    /\ mgr' = [mgr EXCEPT ![req[r].self] = SetTokenizer(@, CurLoad(r))]
    /\ req' = [req EXCEPT ![r].pc = "mod"]
    /\ UNCHANGED <<fs, arrived, model_manager, constructed, succeeded, lastResp>>
    /\ UNCHANGED <<trainVars, otherVars>>

\* load_model, lines 130-145
LoadModel(r) ==
    /\ req[r].pc = "mod"
    /\ mgr' = [mgr EXCEPT ![req[r].self] =
                   SetModel(@, CurLoad(r), fs, req[r].path)]
    /\ req' = [req EXCEPT ![r].pc = "name"]
    /\ UNCHANGED <<fs, arrived, model_manager, constructed, succeeded, lastResp>>
    /\ UNCHANGED <<trainVars, otherVars>>

\* load_model, line 147
LoadName(r) ==
    /\ req[r].pc = "name"
    /\ mgr' = [mgr EXCEPT ![req[r].self] = SetName(@, CurLoad(r), req[r].path)]
    /\ req' = [req EXCEPT ![r].pc = "flag"]
    /\ UNCHANGED <<fs, arrived, model_manager, constructed, succeeded, lastResp>>
    /\ UNCHANGED <<trainVars, otherVars>>

\* load_model, line 148, and the return
LoadFlag(r) ==
    /\ req[r].pc = "flag"
    /\ mgr' = [mgr EXCEPT ![req[r].self] = SetLoaded(@)]
    /\ succeeded' = succeeded \cup {CurLoad(r)}
    /\ AfterLoad(r, TRUE)
    /\ UNCHANGED <<fs, arrived, model_manager, constructed>>
    /\ UNCHANGED <<trainVars, otherVars>>

\* load_model, lines 151-154: a statement of the try block raised
LoadFail(r, stage) ==
    /\ req[r].pc \in {"tok", "mod"}
    /\ stage \in FailStages(req[r].pc, fs, req[r].path)
    /\ mgr' = [mgr EXCEPT ![req[r].self] = LoadFailed(@)]
    /\ AfterLoad(r, FALSE)
    /\ UNCHANGED <<fs, arrived, model_manager, constructed, succeeded>>
    /\ UNCHANGED <<trainVars, otherVars>>

\* get_model_manager: `return model_manager`; the handler is then queued on
\* the event loop
DepReturn(r) ==
    /\ req[r].pc = "ret"
    /\ req' = [req EXCEPT ![r].pc = "ready", ![r].phase = "handler",
                          ![r].manager = model_manager]
    /\ UNCHANGED <<fs, model_manager, constructed, mgr, arrived, succeeded, lastResp>>
    /\ UNCHANGED <<trainVars, otherVars>>

\* POST /chat
HandleChat(r, gen) ==
    /\ req[r].pc = "ready"
    /\ LoopFree
    /\ lastResp' = Answer(r, "chat",
                          ChatResponse(mgr[req[r].manager],
                                       GenerateResponse(mgr[req[r].manager], gen)))
    /\ req' = [req EXCEPT ![r] = Done]
    /\ UNCHANGED <<fs, arrived, model_manager, constructed, mgr, succeeded>>
    /\ UNCHANGED <<trainVars, otherVars>>

\* GET /model_status
HandleModelStatus(r) ==
    /\ req[r].pc = "ready"
    /\ LoopFree
    /\ lastResp' = Answer(r, "model_status", ModelStatusResponse(mgr[req[r].manager]))
    /\ req' = [req EXCEPT ![r] = Done]
    /\ UNCHANGED <<fs, arrived, model_manager, constructed, mgr, succeeded>>
    /\ UNCHANGED <<trainVars, otherVars>>

\* POST /load_model: the handler enters manager.load_model(model_path)
HandleLoadModel(r, p) ==
    /\ req[r].pc = "ready"
    /\ LoopFree
    /\ req' = [req EXCEPT ![r].pc = "tok", ![r].self = req[r].manager,
                          ![r].kind = "load_model", ![r].model_path = p,
                          ![r].path = ResolvePath(fs, p)]
    /\ UNCHANGED <<fs, model_manager, constructed, mgr, arrived, succeeded, lastResp>>
    /\ UNCHANGED <<trainVars, otherVars>>

Stages == {"import", "tokenizer", "listdir", "base_model", "adapter", "model"}

MgrNext ==
    \/ \E r \in Slots : Arrive(r)
    \/ \E r \in Slots : DepCheck(r)
    \/ \E r \in Slots : DepConstruct(r)
    \/ \E r \in Slots : DepCall(r)
    \/ \E r \in Slots : LoadTokenizer(r)
    \/ \E r \in Slots : LoadModel(r)
    \/ \E r \in Slots : LoadName(r)
    \/ \E r \in Slots : LoadFlag(r)
    \/ \E r \in Slots, stage \in Stages : LoadFail(r, stage)
    \/ \E r \in Slots : DepReturn(r)
    \/ \E r \in Slots, gen \in {"ok", "fail"} : HandleChat(r, gen)
    \/ \E r \in Slots : HandleModelStatus(r)
    \/ \E r \in Slots, p \in ModelPathArgs : HandleLoadModel(r, p)

\* ------------------------------------------------------ GET /train/status
\* the fields the response model TrainingStatus requires
RequiredStatusFields == {"status", "message"}

\* fault variant: the endpoint answers with the record the module started with
StaleStatusResponse(st) ==
    [NoStatusResp EXCEPT !.code = 200, !.status = StatusIdle.status,
                         !.message = StatusIdle.message]

\* TrainingStatus(**training_status): validation fails (500) when a required
\* field is missing; progress and logs default to None
TrainingStatusResponse(st) ==
    IF RequiredStatusFields \subseteq DOMAIN st
    THEN [NoStatusResp EXCEPT !.code = 200, !.status = st.status, !.message = st.message]
    ELSE [NoStatusResp EXCEPT !.code = 500]

\* GET /train/status: an async handler without dependencies
TrainingStatusEndpoint ==
    /\ LoopFree
    /\ statusResp' = TrainingStatusResponse(training_status)
    /\ UNCHANGED <<trainVars, mgrVars, healthResp, modelsResp, quick>>

\* ------------------------------------------------------------- GET /health
\* os.getenv("QLORAX_ENV", "production")
Environments == {"production", "development"}

\* the imports of torch, transformers and peft succeed or raise ImportError
ImportOutcomes == {"ok", "ImportError"}

\* fault variant: the endpoint reports trouble when a dependency is missing
DegradedWithoutDependencies(deps, env) ==
    [code |-> 200, status |-> IF deps = "ok" THEN "healthy" ELSE "degraded",
     timestamp |-> "float", version |-> "1.0.0", environment |-> env,
     dependencies |-> IF deps = "ok" THEN "versions" ELSE "error"]

\* HealthResponse(status="healthy", timestamp=time.time(), version="1.0.0", ...)
HealthResponseBody(deps, env) ==
    [code |-> 200, status |-> "healthy", timestamp |-> "float", version |-> "1.0.0",
     environment |-> env,
     dependencies |-> IF deps = "ok" THEN "versions" ELSE "error"]

\* GET /health: an async handler without dependencies
HealthCheck(deps, env) ==
    /\ LoopFree
    /\ healthResp' = HealthResponseBody(deps, env)
    /\ UNCHANGED <<trainVars, mgrVars, statusResp, modelsResp, quick>>

\* ------------------------------------------------------------- GET /models
\* os.listdir(model_dir): the entries of the directory, in an arbitrary order
ListDirOrders(items) ==
    {o \in [1..Cardinality(items) -> items] :
        \A i, j \in 1..Cardinality(items) : i # j => o[i] # o[j]}

\* the inner loop of list_models: one entry for every item that is a directory
RECURSIVE LocalEntries(_, _)
LocalEntries(d, listing) ==
    IF listing = <<>> THEN <<>>
    ELSE (IF Head(listing).isdir
          THEN <<[name |-> Head(listing).name, path |-> PathJoin(d, Head(listing).name),
                  type |-> "local"]>>
          ELSE <<>>) \o LocalEntries(d, Tail(listing))

\* the outer loop of list_models over model_dirs, from the i-th on; listings[i]
\* is what os.listdir returns for the i-th directory
RECURSIVE ScanDirs(_, _, _)
ScanDirs(f, listings, i) ==
    IF i > Len(model_dirs) THEN <<>>
    ELSE (IF f.dirs[model_dirs[i]].exists
          THEN LocalEntries(model_dirs[i], listings[i])
          ELSE <<>>) \o ScanDirs(f, listings, i + 1)

\* the second loop of list_models
BaseEntries ==
    [i \in DOMAIN base_models |->
        [name |-> base_models[i], path |-> base_models[i], type |-> "huggingface"]]

\* fault variant: the base models are put in front
BaseModelsFirst(f, listings) == BaseEntries \o ScanDirs(f, listings, 1)

\* the list list_models builds
ModelsList(f, listings) == ScanDirs(f, listings, 1) \o BaseEntries

\* GET /models: an async handler without dependencies
ListModels ==
    /\ LoopFree
    /\ \E l1 \in ListDirOrders(fs.dirs[model_dirs[1]].items),
          l2 \in ListDirOrders(fs.dirs[model_dirs[2]].items),
          l3 \in ListDirOrders(fs.dirs[model_dirs[3]].items) :
            modelsResp' = [code |-> 200, models |-> ModelsList(fs, <<l1, l2, l3>>)]
    /\ UNCHANGED <<trainVars, mgrVars, statusResp, healthResp, quick>>

ReportNext ==
    \/ TrainingStatusEndpoint
    \/ \E deps \in ImportOutcomes, env \in Environments : HealthCheck(deps, env)
    \/ ListModels

\* ------------------------------------------- one client, one request at a time
\* what a client may send as model_path: nothing, a local path, the base model
SeqModelPathArgs == {"None"} \cup LocalPaths \cup {BaseModel}

\* every combination of the local paths existing and holding an adapter
SeqInit == TrainInit /\ fs \in LoadFileSystems /\ MgrStart /\ OtherInit

\* the client waits for each answer before it sends the next request, so only
\* one request is in flight; it also asks for /health at any time
SeqNext ==
    \/ Arrive(1)
    \/ DepCheck(1)
    \/ DepConstruct(1)
    \/ DepCall(1)
    \/ LoadTokenizer(1)
    \/ LoadModel(1)
    \/ LoadName(1)
    \/ LoadFlag(1)
    \/ \E stage \in Stages : LoadFail(1, stage)
    \/ DepReturn(1)
    \/ \E gen \in {"ok", "fail"} : HandleChat(1, gen)
    \/ HandleModelStatus(1)
    \/ \E p \in SeqModelPathArgs : HandleLoadModel(1, p)
    \/ \E deps \in ImportOutcomes, env \in Environments : HealthCheck(deps, env)

\* ------------------------------------------------------------ quick_start.py
\* what the user may type at the prompt
Answers == {"y", "yes", "Y", "Yes", "YES", "n", "N", "no", "", " y", "yes please"}

\* response.lower(), on the answers above
Lower(a) ==
    IF a = "Y" THEN "y"
    ELSE IF a \in {"Yes", "YES"} THEN "yes"
    ELSE IF a = "N" THEN "n"
    ELSE a

\* `response.lower() not in ['y', 'yes']` is false
Confirmed(a) == Lower(a) \in {"y", "yes"}

\* how subprocess.run may end: exit code 0, another exit code, an exception
CommandOutcomes == {"exit0", "exit1", "exception"}

\* fault variant: run_command does not look at the exit code
RunCommandIgnoresExit(out) == out # "exception"

\* run_command(..., check=False): True only when the exit code is 0
RunCommand(out) == out = "exit0"

\* validate_setup: the project-root check, then the list of missing files
ValidateSetup(files) ==
    IF required_files[1] \notin files THEN FALSE
    ELSE {f \in RequiredFiles : f \notin files} = {}

\* how show_results may end: the summary is printed, there is nothing to
\* print (no results directory, no detailed_results.json), or reading or
\* formatting the results raises
ShowOutcomes == {"displayed", "nothing", "raised"}

\* main starts a step; main returns v; an exception leaves main
Started(q, step) == [q EXCEPT !.log = Append(@, step)]

Return(q, v) == [q EXCEPT !.pc = "returned", !.ret = <<v>>]

Raise(q) == [q EXCEPT !.pc = "raised"]

\* `exit(main())`: the value main returned, or 1 after an uncaught exception
ExitStatus(q) == IF q.pc = "returned" THEN q.ret[1] ELSE 1

serverVars == <<trainVars, mgrVars, statusResp, healthResp, modelsResp>>

\* main: `if not validate_setup(): return 1`
QuickValidate ==
    /\ quick.pc = "validate"
    /\ quick' = IF ValidateSetup(quick.files)
                THEN [Started(quick, "validate") EXCEPT !.pc = "confirm"]
                ELSE Return(Started(quick, "validate"), 1)
    /\ UNCHANGED serverVars

\* main: `response = input(...)`, `if response.lower() not in [...]: return 0`
QuickConfirm(a) ==
    /\ quick.pc = "confirm"
    /\ quick' = IF Confirmed(a)
                THEN [Started(quick, "confirm") EXCEPT !.pc = "train", !.response = a]
                ELSE Return([Started(quick, "confirm") EXCEPT !.response = a], 0)
    /\ UNCHANGED serverVars

\* main: input() raises EOFError, standard input is closed
QuickConfirmEOF ==
    /\ quick.pc = "confirm"
    /\ quick' = Raise([Started(quick, "confirm") EXCEPT !.response = "EOFError"])
    /\ UNCHANGED serverVars

\* run_training: the production command, `if not success:` the fallback
QuickTrainProduction(out) ==
    /\ quick.pc = "train"
    /\ quick' = [Started(quick, "train_production") EXCEPT
                    !.production = out,
                    !.pc = IF RunCommand(out) THEN "trained" ELSE "fallback"]
    /\ UNCHANGED serverVars

\* run_training: the test-config command; its result is what run_training returns
QuickTrainFallback(out) ==
    /\ quick.pc = "fallback"
    /\ quick' = IF RunCommand(out)
                THEN [Started(quick, "train_fallback") EXCEPT !.fallback = out,
                                                              !.pc = "trained"]
                ELSE Return([Started(quick, "train_fallback") EXCEPT !.fallback = out], 1)
    /\ UNCHANGED serverVars

\* main: `if not Path(model_path).exists(): return 1`
QuickCheckModel(exists) ==
    /\ quick.pc = "trained"
    /\ quick' = IF exists
                THEN [quick EXCEPT !.model_exists = TRUE, !.pc = "benchmark"]
                ELSE Return(quick, 1)
    /\ UNCHANGED serverVars

\* main: `results_dir = run_benchmark(model_path)`, `if not results_dir: return 1`
QuickBenchmark(out) ==
    /\ quick.pc = "benchmark"
    /\ quick' = IF RunCommand(out)
                THEN [Started(quick, "benchmark") EXCEPT !.benchmark = out, !.pc = "show"]
                ELSE Return([Started(quick, "benchmark") EXCEPT !.benchmark = out], 1)
    /\ UNCHANGED serverVars

\* main: `show_results(results_dir)`, the closing messages, `return 0`
QuickShowResults(shown) ==
    /\ quick.pc = "show"
    /\ quick' = IF shown = "raised"
                THEN Raise([Started(quick, "show_results") EXCEPT !.shown = shown])
                ELSE Return([Started(quick, "show_results") EXCEPT !.shown = shown], 0)
    /\ UNCHANGED serverVars

QuickNext ==
    \/ QuickValidate
    \/ \E a \in Answers : QuickConfirm(a)
    \/ QuickConfirmEOF
    \/ \E out \in CommandOutcomes : QuickTrainProduction(out)
    \/ \E out \in CommandOutcomes : QuickTrainFallback(out)
    \/ \E exists \in BOOLEAN : QuickCheckModel(exists)
    \/ \E out \in CommandOutcomes : QuickBenchmark(out)
    \/ \E shown \in ShowOutcomes : QuickShowResults(shown)

\* the script is started in a directory that holds any of the required files
QuickInit ==
    /\ TrainInit /\ MgrInit /\ ReportInit
    /\ quick \in {QuickStart(files) : files \in SUBSET RequiredFiles}

Next == TrainNext \/ MgrNext \/ ReportNext

\* the whole process
Spec == Init /\ [][Next]_vars

\* the training-status coordinator alone (it shares no state with the manager)
SpecTrain == Init /\ [][TrainNext]_vars

\* the model manager alone
SpecModel == Init /\ [][MgrNext]_vars

\* a worker thread that can take a step of run_training eventually takes it
TaskFinish(t) == TaskComplete(t) \/ \E e \in ExcMessages : TaskFail(t, e)

FairSpecTrain ==
    SpecTrain /\ \A t \in Tasks : WF_vars(TaskBegin(t)) /\ WF_vars(TaskFinish(t))

\* the model manager with a single sequential client, on every filesystem
SpecSeq == SeqInit /\ [][SeqNext]_vars

\* both local model directories exist: a trained adapter and a standalone model
BothModelsFs == FsOf(DirsWith(LocalPaths), {"outputs/production_training/final_model"})

\* the model manager on that filesystem, with clients that also ask for the
\* standalone model
BothModelsInit == TrainInit /\ fs = BothModelsFs /\ MgrStart /\ OtherInit

BothModelsNext ==
    \/ MgrNext
    \/ \E r \in Slots : HandleLoadModel(r, "models/fine_tuned_model")

SpecBothModels == BothModelsInit /\ [][BothModelsNext]_vars

\* GET /models on every state of the three model directories
ListInit == TrainInit /\ fs \in ListFileSystems /\ MgrStart /\ OtherInit

SpecList == ListInit /\ [][ListModels]_vars

\* a run of quick_start.py
SpecQuick == QuickInit /\ [][QuickNext]_vars

\* the training coordinator with a client that asks for /health at any time
TrainHealthNext ==
    \/ TrainNext
    \/ \E deps \in ImportOutcomes, env \in Environments : HealthCheck(deps, env)

SpecTrainHealth == Init /\ [][TrainHealthNext]_vars

\* the training coordinator with a client that polls the status
StatusNext == TrainNext \/ TrainingStatusEndpoint

SpecStatus == Init /\ [][StatusNext]_vars

\* ------------------------------------------------- the training coordinator
\* a POST /train was answered in this step
TrainAnswered == trainResp'.seq # trainResp.seq

\* the run_training jobs between their queuing and their final status write
ActiveJobs == {t \in Tasks : tasks[t].pc \in {"queued", "running"}}

\* C3: a POST /train that arrives while the status is `starting` or `training`
\* is rejected: it changes neither the status record nor the set of queued
\* background tasks.
C3_RejectedWhileStartingOrTraining ==
    [][(TrainAnswered /\ training_status.status \in {"starting", "training"})
         => /\ trainResp'.code = 409
            /\ training_status' = training_status
            /\ tasks' = tasks]_vars

\* C4: at most one background training job exists at any time, so the status
\* record has at most one active writer.
C4_AtMostOneActiveJob == Cardinality(ActiveJobs) <= 1

\* C5: a POST /train issued while the status is `training` is answered 409,
\* leaves the status record (status and message) and the background tasks as
\* they are, and a running job still ends by writing `completed` or `error`.
C5_ConflictLeavesJobAlone ==
    [][/\ (TrainAnswered /\ training_status.status = "training")
            => /\ trainResp'.code = 409
               /\ training_status' = training_status
               /\ tasks' = tasks
       /\ \A t \in Tasks :
            (tasks[t].pc = "running" /\ tasks'[t].pc # "running")
                => /\ tasks'[t].pc = "done"
                   /\ training_status'.status \in {"completed", "error"}]_vars

\* a 409 was given while a job was running, and that job has since finished
\* and written its final status
C5_Witness ==
    /\ trainResp.code = 409
    /\ \E t \in Tasks : tasks[t].pc = "done"
    /\ ActiveJobs = {}
    /\ training_status.status \in {"completed", "error"}

AllowedTransitions ==
    {<<"idle", "starting">>, <<"starting", "training">>, <<"training", "completed">>,
     <<"training", "error">>, <<"completed", "starting">>, <<"error", "starting">>}

\* C6: every change of training_status.status is one of idle->starting,
\* starting->training, training->completed, training->error,
\* completed->starting, error->starting.
C6_OnlyAllowedTransitions ==
    [][training_status'.status # training_status.status
         => <<training_status.status, training_status'.status>> \in AllowedTransitions]_vars

\* C7: an accepted POST /train returns with the status `starting`; the status
\* then eventually becomes `training`, and from `training` eventually
\* `completed` or `error`; a job that ends with an exception writes `error`
\* with the exception's message.
C7_AcceptedTrainingRunsToAnEnd ==
    /\ [][(TrainAnswered /\ trainResp'.code = 200)
            => training_status'.status = "starting"]_vars
    /\ [][\A t \in Tasks :
            (tasks[t].pc = "running" /\ tasks'[t].pc = "done" /\ tasks'[t].exc # "none")
                => training_status' =
                       [status |-> "error",
                        message |-> <<"Training failed: ", tasks'[t].exc>>]]_vars
    /\ (training_status.status = "starting") ~> (training_status.status = "training")
    /\ (training_status.status = "training")
           ~> (training_status.status \in {"completed", "error"})

\* a job failed at the import and the record says so
C7_Witness ==
    /\ trainResp.code = 200
    /\ \E t \in Tasks : tasks[t].pc = "done" /\ tasks[t].exc = ImportErrorMessage
    /\ training_status =
           [status |-> "error", message |-> <<"Training failed: ", ImportErrorMessage>>]

\* ------------------------------------------------------- the model manager
\* no load_model call is inside its try block on manager m
Quiescent(m) == \A r \in Slots : ~(req[r].pc \in LoadPcs /\ req[r].self = m)

\* the tokenizer and the model of m were assigned by one load_model call, and
\* that call returned without raising
SameSuccessfulLoad(m) ==
    /\ mgr[m].tokenizer.src # NoLoad
    /\ mgr[m].model.src = mgr[m].tokenizer.src
    /\ mgr[m].tokenizer.src \in succeeded

\* C1: whenever no load is in progress on a manager, is_loaded is true if and
\* only if its model and tokenizer are both present and were both assigned by
\* the same successful load_model call.
C1_IsLoadedIffSameSuccessfulLoad ==
    \A m \in constructed : Quiescent(m) => (mgr[m].is_loaded <=> SameSuccessfulLoad(m))

\* C2: a POST /chat handled while is_loaded is false is answered 503 and
\* carries no generated response.
C2_ChatWhileNotLoadedIs503 ==
    (lastResp.kind = "chat" /\ ~lastResp.saw_loaded)
        => (lastResp.code = 503 /\ lastResp.response = <<>>)

\* the request in slot r leaves load_model through its except clause in this step
LoadRaised(r) == req[r].pc \in {"tok", "mod"} /\ req'[r].pc \in {"ret", "idle"}

\* C8: when load_model fails at any statement, is_loaded of that manager is
\* false right after, also when an earlier load had succeeded; the exception
\* reaches the caller, and POST /load_model answers 500; a 200 of POST
\* /load_model is given only for a load that succeeded.
C8_FailedLoadClearsFlagAndSurfaces ==
    /\ [][\A r \in Slots :
            LoadRaised(r)
                => /\ ~mgr'[req[r].self].is_loaded
                   /\ req[r].phase = "dep" => req'[r].lazy = "failed"
                   /\ req[r].phase = "handler"
                        => /\ lastResp'.req = req[r].id
                           /\ lastResp'.kind = "load_model"
                           /\ lastResp'.code = 500]_vars
    /\ [](lastResp.kind = "load_model" /\ lastResp.code = 200
            => <<lastResp.req, "handler">> \in succeeded)

\* POST /load_model was answered 500 on a manager that an earlier load had
\* loaded in full
C8_Witness ==
    /\ lastResp.kind = "load_model"
    /\ lastResp.code = 500
    /\ \E m \in constructed :
         /\ Quiescent(m)
         /\ SameSuccessfulLoad(m)
         /\ ~mgr[m].is_loaded

\* C9: after any load_model call the tokenizer, the model and the model name
\* of a manager all come from one load_model call (or are all still absent).
C9_LoadReplacesAllOrNothing ==
    \A m \in constructed :
        Quiescent(m)
            => /\ mgr[m].model.src = mgr[m].tokenizer.src
               /\ mgr[m].name_src = mgr[m].tokenizer.src

\* the very first request is a GET /model_status, answered before any other
\* request is issued
FirstStatusAlone ==
    /\ lastResp.kind = "model_status"
    /\ lastResp.req = 1
    /\ arrived = 1

\* C10 as stated: GET /model_status issued before any load attempt reports
\* is_loaded: false.
C10_FirstStatusReportsNotLoaded == FirstStatusAlone => ~lastResp.is_loaded

\* C10 as amended: GET /model_status issued before any load attempt runs the
\* lazy load of get_model_manager first; answered with no other request in
\* flight, it reports is_loaded: true if that load succeeded and false if it
\* failed; and no GET /model_status reports true unless a load has succeeded.
C10_FirstStatusReportsLazyLoad ==
    /\ FirstStatusAlone
         => /\ lastResp.lazy # "none"
            /\ lastResp.is_loaded <=> (lastResp.lazy = "ok")
    /\ (lastResp.kind = "model_status" /\ lastResp.is_loaded) => succeeded # {}

\* the first GET /model_status reported a loaded model
C10_Witness == FirstStatusAlone /\ lastResp.is_loaded /\ lastResp.lazy = "ok"

\* ------------------------------------------------ claims C11, C12 and C19
\* the worker threads that are inside the lazy load of get_model_manager
LazyLoaders == {r \in Slots : req[r].phase = "dep" /\ req[r].pc \in {"call"} \cup LoadPcs}

\* C11: exactly one ModelManager is ever constructed, every request is handed
\* that instance, and the lazy initial load does not run twice.
C11_ManagerCreatedOnce ==
    /\ Cardinality(constructed) <= 1
    /\ \A r \in Slots : req[r].manager # 0 => constructed = {req[r].manager}
    /\ Cardinality(LazyLoaders) <= 1

\* C12: a POST /train answered while the status is `idle`, `completed` or
\* `error` is accepted: it answers 200, sets the status to `starting` and
\* queues exactly one background task; and in these states the request can
\* only be accepted, never refused.
C12_TrainAcceptedWhenNotRunning ==
    /\ [][(TrainAnswered /\ training_status.status \in {"idle", "completed", "error"})
            => /\ trainResp'.code = 200
               /\ training_status' = StatusStarting
               /\ \E t \in Tasks :
                    /\ tasks[t].pc = "none"
                    /\ tasks'[t].pc = "queued"
                    /\ \A u \in Tasks \ {t} : tasks'[u] = tasks[u]]_vars
    /\ []((training_status.status \in {"idle", "completed", "error"}
              /\ LoopFree /\ trainResp.seq < MaxTrain)
            => (ENABLED (\E c \in ConfigPaths : StartTrainingAccepted(c))
                /\ ~ENABLED StartTrainingRejected))

\* a training run failed, and the next POST /train was accepted
C12_Witness ==
    /\ trainResp.code = 200
    /\ training_status = StatusStarting
    /\ \E t \in Tasks : tasks[t].pc = "done" /\ tasks[t].exc # "none"
    /\ Cardinality(ActiveJobs) = 1

\* C19: whenever the status is `idle`, `completed` or `error`, no background
\* training job of an accepted POST /train is still queued or running.
C19_StatusTruthfulAboutJobs ==
    training_status.status \in {"idle", "completed", "error"} => ActiveJobs = {}

\* ----------------------------------------------------------------- claim C13
\* C13: GET /train/status succeeds in every reachable state: training_status
\* always holds the fields `status` and `message`, the endpoint can always
\* answer, it answers 200 with exactly the status and message stored at that
\* moment, and it leaves the record, the jobs and the model manager unchanged.
C13_StatusEndpointReportsVerbatim ==
    /\ [](RequiredStatusFields \subseteq DOMAIN training_status)
    /\ [](ENABLED TrainingStatusEndpoint)
    /\ [][(TrainingStatusEndpoint \/ statusResp' # statusResp)
            => /\ statusResp'.code = 200
               /\ statusResp'.status = training_status.status
               /\ statusResp'.message = training_status.message
               /\ training_status' = training_status
               /\ UNCHANGED <<tasks, trainResp, mgrVars>>]_vars

\* a poll answered `training`, and the job has finished since
C13_Witness ==
    /\ statusResp.code = 200
    /\ statusResp.status = "training"
    /\ training_status = StatusCompleted

\* ----------------------------------------------------------------- claim C14
\* a GET /health was answered in this step
HealthAnswered ==
    \/ \E deps \in ImportOutcomes, env \in Environments : HealthCheck(deps, env)
    \/ healthResp' # healthResp

\* C14: GET /health can be answered whenever the event loop is free, whatever
\* the state of the manager; it answers 200 with status `healthy`, a timestamp
\* and the version string, and it neither creates the model manager, nor starts
\* or affects a load, nor changes the training status.
C14_HealthAlwaysHealthy ==
    /\ [](LoopFree => ENABLED (\E deps \in ImportOutcomes, env \in Environments :
                                   HealthCheck(deps, env)))
    /\ [][HealthAnswered
            => /\ healthResp'.code = 200
               /\ healthResp'.status = "healthy"
               /\ healthResp'.timestamp = "float"
               /\ healthResp'.version = "1.0.0"
               /\ UNCHANGED <<model_manager, constructed, mgr, req, succeeded>>
               /\ UNCHANGED <<training_status, tasks>>]_vars

\* /health was answered, without its dependencies, and no manager exists
C14_Witness ==
    /\ healthResp.code = 200
    /\ healthResp.dependencies = "error"
    /\ model_manager = 0
    /\ constructed = {}
    /\ arrived = 0

\* ----------------------------------------------------------------- claim C15
\* the load_model calls in progress that were made without an identifier: the
\* lazy load of get_model_manager and POST /load_model without model_path
DefaultLoads == {r \in Slots : req[r].pc \in LoadPcs /\ req[r].model_path = "None"}

\* C15: load_model without an identifier works on the first entry of
\* possible_paths that exists locally or is the last, fallback entry: an
\* identifier is always chosen, and it is the fallback base model exactly when
\* neither local path exists.
C15_DefaultIdentifierIsFirstAvailable ==
    \A r \in DefaultLoads :
        /\ \E i \in DOMAIN possible_paths :
             /\ req[r].path = possible_paths[i]
             /\ possible_paths[i] \in fs.exists \/ i = Len(possible_paths)
             /\ \A j \in 1..(i - 1) : possible_paths[j] \notin fs.exists
        /\ req[r].path = BaseModel <=> fs.exists \cap LocalPaths = {}

\* POST /load_model without model_path, where only the second candidate exists
C15_Witness ==
    \E r \in DefaultLoads :
        /\ req[r].phase = "handler"
        /\ fs.exists = {"models/fine_tuned_model"}
        /\ req[r].path = "models/fine_tuned_model"

\* ----------------------------------------------------------------- claim C16
\* the load_model call of slot r returns without raising in this step
LoadReturns(r) == req[r].pc = "flag" /\ CurLoad(r) \in succeeded' \ succeeded

\* GET /model_status of slot r is answered in this step, with is_loaded true
StatusSaysLoaded(r) ==
    /\ req[r].pc = "ready"
    /\ req'[r].pc = "idle"
    /\ lastResp'.kind = "model_status"
    /\ lastResp'.is_loaded

\* manager m holds what loading path p gives: the fixed base model with the
\* adapter of p on top when p is a directory with adapter_config.json, the
\* standalone model read from p otherwise
HoldsModelOf(m, p) ==
    IF p \in fs.exists /\ p \in fs.adapter
    THEN m.model.type = "PeftModel" /\ m.model.base = BaseModel /\ m.model.adapter = p
    ELSE m.model.type = "CausalLM" /\ m.model.base = p /\ m.model.adapter = "None"

\* C16: when load_model returns successfully for a path, the manager is
\* loaded, is named by that path, and holds the base model composed with the
\* adapter of that path if the directory has the marker, the standalone model
\* of that path if not; and a /model_status that reports is_loaded reports the
\* path whose model the manager holds, with the type of that model.
C16_SuccessfulLoadComposes ==
    [][/\ \A r \in Slots :
            LoadReturns(r)
            => /\ mgr'[req[r].self].is_loaded
               /\ mgr'[req[r].self].model_name = req[r].path
               /\ HoldsModelOf(mgr'[req[r].self], req[r].path)
       /\ \A r \in Slots :
            StatusSaysLoaded(r)
            => /\ lastResp'.model_name = mgr[req[r].manager].model_name
               /\ lastResp'.model_type = mgr[req[r].manager].model.type
               /\ HoldsModelOf(mgr[req[r].manager], lastResp'.model_name)]_vars

\* ----------------------------------------------------------------- claim C17
\* C17: whatever the model directories hold, GET /models can be answered, and
\* the list it returns ends with the three base models, in their order, each
\* with itself as path and type `huggingface`; everything before them is a
\* local entry.
C17_BaseModelsListedLast ==
    /\ ENABLED ListModels
    /\ modelsResp.code # 0 =>
         LET models == modelsResp.models
             locals == Len(models) - Len(base_models)
         IN  /\ modelsResp.code = 200
             /\ locals >= 0
             /\ \A i \in DOMAIN base_models :
                  models[locals + i] =
                      [name |-> base_models[i], path |-> base_models[i],
                       type |-> "huggingface"]
             /\ \A i \in 1..locals : models[i].type = "local"

\* every directory holds all it can: the sub-directories are listed, the two
\* of `models` in the order os.listdir gave them, and the plain files are not
C17_Witness ==
    /\ modelsResp.code = 200
    /\ \A d \in ModelDirs : fs.dirs[d].items = DirItems(d)
    /\ Len(modelsResp.models) =
         Len(base_models)
           + Cardinality({i \in UNION {DirItems(d) : d \in ModelDirs} : i.isdir})
    /\ \E k \in DOMAIN modelsResp.models :
         /\ modelsResp.models[k].name = "production-model"
         /\ modelsResp.models[k + 1].name = "fine_tuned_model"

\* ----------------------------------------------------------------- claim C18
\* the steps of the pipeline, in the order the claim gives them
PipelineOrder ==
    <<"validate", "confirm", "train_production", "train_fallback", "benchmark",
      "show_results">>

Rank(step) == CHOOSE i \in DOMAIN PipelineOrder : PipelineOrder[i] = step

HasStarted(step) == \E i \in DOMAIN quick.log : quick.log[i] = step

\* validation passed; the user answered y or yes, in any case of letters
Validated == RequiredFiles \subseteq quick.files

AnsweredYes == quick.response \in {"y", "yes", "Y", "Yes", "YES"}

\* the user was asked and did not answer y or yes
Declined == Validated /\ quick.response \in Answers /\ ~AnsweredYes

\* every step did what it is there for
EveryStepSucceeded ==
    /\ Validated
    /\ AnsweredYes
    /\ quick.production = "exit0" \/ quick.fallback = "exit0"
    /\ quick.model_exists
    /\ quick.benchmark = "exit0"
    /\ quick.shown \in {"displayed", "nothing"}

\* C18: the steps of quick_start.main start in the order validate, confirm,
\* train, benchmark, show results, none before the one it follows; training
\* starts only after validation passed and the user answered y/yes; the
\* fallback training starts only after the production command failed;
\* benchmarking starts only after a training command exited with code 0 and
\* models/production-model exists; and main returns 0 exactly when the user
\* declined or every step succeeded, and 1 in every other case in which it
\* returns (an exception that leaves main ends the process with status 1).
C18_PipelineOrderAndExit ==
    /\ \A i, j \in DOMAIN quick.log : i < j => Rank(quick.log[i]) < Rank(quick.log[j])
    /\ HasStarted("confirm") => HasStarted("validate")
    /\ HasStarted("train_production")
         => HasStarted("confirm") /\ Validated /\ AnsweredYes
    /\ HasStarted("train_fallback")
         => HasStarted("train_production") /\ quick.production \in {"exit1", "exception"}
    /\ HasStarted("benchmark")
         => /\ HasStarted("train_production")
            /\ quick.production = "exit0" \/ quick.fallback = "exit0"
            /\ quick.model_exists
    /\ HasStarted("show_results") => HasStarted("benchmark") /\ quick.benchmark = "exit0"
    /\ quick.pc = "returned"
         => /\ quick.ret \in {<<0>>, <<1>>}
            /\ quick.ret = <<0>> <=> (Declined \/ EveryStepSucceeded)
    /\ quick.pc \in {"returned", "raised"}
         => (ExitStatus(quick) = 0 <=> (Declined \/ EveryStepSucceeded))

\* the production training failed, the fallback training succeeded, the model
\* was benchmarked, the results were shown and main returned 0
C18_Witness ==
    /\ quick.pc = "returned"
    /\ quick.ret = <<0>>
    /\ quick.log = PipelineOrder
    /\ quick.production = "exit1"
    /\ quick.shown = "displayed"

====
